---- MODULE Spec2Model ----
(***************************************************************************)
(* Langton's Ant with decaying, identity-tagged pheromones.                *)
(*                                                                         *)
(* The model follows TASK!_24CY10010_ArnavGawade-Fair.py: the three numpy  *)
(* arrays of LangtonsAntSimulation, the list of Ant objects, the step      *)
(* counter, and the position of the main loop of run().  The float64       *)
(* arithmetic of the pheromone strengths is modelled bit-exactly           *)
(* (IEEE-754 binary64, round-half-to-even) on fixed-point numbers that are *)
(* kept as little-endian sequences of 14-bit limbs, since the decay        *)
(* horizon depends on the rounding of 1/5.                                 *)
(***************************************************************************)
EXTENDS Integers, Sequences, FiniteSets, TLC

(***************************************************************************)
(* Bounds of the model.                                                    *)
(***************************************************************************)
\* side of the bounded grid that stands for GRID_SIZE (1000 in the source)
GridSide == 4
\* number of iterations of the main loop of run() that are explored
MaxSteps == 6
\* number of iterations explored in the single-ant scenario
ScenarioSteps == 40

(***************************************************************************)
(* Program constants.                                                      *)
(***************************************************************************)
PHEROMONE_DECAY_STEPS == 5

\* DIRECTIONS[d + 1] is the source's DIRECTIONS[d] = (dx, dy)
DIRECTIONS == <<<<0, -1>>, <<1, 0>>, <<0, 1>>, <<-1, 0>>>>

(***************************************************************************)
(* Unsigned multi-limb integers: x[1] is the least significant limb.       *)
(***************************************************************************)
Limb == 2^14

\* bit i of x, bit 0 being the least significant one
Bit(x, i) == (x[(i \div 14) + 1] \div (2^(i % 14))) % 2

BIsZero(x) == \A k \in 1..Len(x) : x[k] = 0

\* index of the most significant nonzero limb, 0 for x = 0
TopLimb(x) ==
    IF BIsZero(x) THEN 0
    ELSE CHOOSE k \in 1..Len(x) : x[k] # 0 /\ \A j \in (k + 1)..Len(x) : x[j] = 0

BitLenAt(x, t) ==
    IF t = 0 THEN 0
    ELSE 14 * (t - 1) + (CHOOSE b \in 1..14 : 2^(b - 1) <= x[t] /\ x[t] < 2^b)

\* number of significant bits of x
BitLen(x) == BitLenAt(x, TopLimb(x))

BLess(a, b) ==
    \E i \in 1..Len(a) : a[i] < b[i] /\ \A j \in (i + 1)..Len(a) : a[j] = b[j]

\* a - b for a >= b: limb i borrows when the limbs below it of a are less
\* than those of b
BorrowInto(a, b, i) ==
    \E j \in 1..(i - 1) : a[j] < b[j] /\ \A k \in (j + 1)..(i - 1) : a[k] = b[k]

BSub(a, b) ==
    [i \in 1..Len(a) |-> (a[i] - b[i] - (IF BorrowInto(a, b, i) THEN 1 ELSE 0)) % Limb]

\* a + b: a carry enters limb i when a limb below generates one and every
\* limb in between passes it on
CarryInto(a, b, i) ==
    \E j \in 1..(i - 1) :
        a[j] + b[j] >= Limb /\ \A k \in (j + 1)..(i - 1) : a[k] + b[k] = Limb - 1

BAdd(a, b) ==
    [i \in 1..Len(a) |-> (a[i] + b[i] + (IF CarryInto(a, b, i) THEN 1 ELSE 0)) % Limb]

\* column k of the long multiplication of two 4-limb numbers
Term(a, b, i, k) == IF (k + 1 - i) \in 1..4 THEN a[i] * b[k + 1 - i] ELSE 0

Col(a, b, k) == Term(a, b, 1, k) + Term(a, b, 2, k) + Term(a, b, 3, k) + Term(a, b, 4, k)

\* the long multiplication from column k on, t being column k with the carry
\* of the columns below it added
Mul8(a, b, t) == <<t>>
Mul7(a, b, t) == <<t % Limb>> \o Mul8(a, b, t \div Limb)
Mul6(a, b, t) == <<t % Limb>> \o Mul7(a, b, Col(a, b, 7) + t \div Limb)
Mul5(a, b, t) == <<t % Limb>> \o Mul6(a, b, Col(a, b, 6) + t \div Limb)
Mul4(a, b, t) == <<t % Limb>> \o Mul5(a, b, Col(a, b, 5) + t \div Limb)
Mul3(a, b, t) == <<t % Limb>> \o Mul4(a, b, Col(a, b, 4) + t \div Limb)
Mul2(a, b, t) == <<t % Limb>> \o Mul3(a, b, Col(a, b, 3) + t \div Limb)
Mul1(a, b, t) == <<t % Limb>> \o Mul2(a, b, Col(a, b, 2) + t \div Limb)

\* the exact product of two 4-limb numbers, on 8 limbs
BMul(a, b) == Mul1(a, b, Col(a, b, 1))

\* the long division of x by n < 2^14 from limb i down, u being limb i with
\* the remainder of the limbs above it carried in; the result is
\* <<quotient limbs, remainder>>
Div1(x, n, u) == <<<<u \div n>>, u % n>>
DivJoin(lower, q) == <<lower[1] \o <<q>>, lower[2]>>
Div2(x, n, u) == DivJoin(Div1(x, n, (u % n) * Limb + x[1]), u \div n)
Div3(x, n, u) == DivJoin(Div2(x, n, (u % n) * Limb + x[2]), u \div n)
Div4(x, n, u) == DivJoin(Div3(x, n, (u % n) * Limb + x[3]), u \div n)
Div5(x, n, u) == DivJoin(Div4(x, n, (u % n) * Limb + x[4]), u \div n)
Div6(x, n, u) == DivJoin(Div5(x, n, (u % n) * Limb + x[5]), u \div n)

\* <<x \div n, x % n>> for a 6-limb x
BDivSmall(x, n) == Div6(x, n, x[6])

(***************************************************************************)
(* IEEE-754 binary64 on the range the program uses.  A value is a record   *)
(* [s, m]: s = 1 marks a negative number, m is the magnitude.  Strengths   *)
(* are counted in units of 2^-55 on 4 limbs (every double that 1.0, 1/5    *)
(* and their differences produce is a multiple of 2^-55); products are     *)
(* counted in units of 2^-110 on 8 limbs.                                  *)
(***************************************************************************)
\* x with its d lowest bits cleared
Truncated(x, d) ==
    [k \in 1..Len(x) |->
        IF 14 * k <= d THEN 0
        ELSE IF 14 * (k - 1) >= d THEN x[k]
        ELSE x[k] - (x[k] % (2^(d - 14 * (k - 1))))]

\* 2^d
UnitAt(x, d) == [k \in 1..Len(x) |-> IF (d \div 14) + 1 = k THEN 2^(d % 14) ELSE 0]

\* round-half-to-even on the d bits to drop; sticky0: nonzero bits already lost
RoundsUp(x, d, sticky0) ==
    /\ Bit(x, d - 1) = 1
    /\ \/ sticky0
       \/ \E j \in 0..(d - 2) : Bit(x, j) = 1
       \/ Bit(x, d) = 1

RoundDrop(x, d, sticky0) ==
    IF d <= 0 THEN x
    ELSE IF RoundsUp(x, d, sticky0) THEN BAdd(Truncated(x, d), UnitAt(x, d))
    ELSE Truncated(x, d)

\* round to a 53-bit significand
Round53(x, sticky0) == RoundDrop(x, BitLen(x) - 53, sticky0)

Float(sign, magnitude) == [s |-> sign, m |-> magnitude]

\* p * 2^69 on 6 limbs, for p < 2^15
Numerator(p) == <<0, 0, 0, 0, (p * 2^13) % Limb, (p * 2^13) \div Limb>>

\* limbs 2..5 of a rounded quotient in units of 2^-69: the value in units of
\* 2^-55 on 4 limbs
Fix55(r) == <<r[2], r[3], r[4], r[5]>>

Rounded(qr) == Float(0, Fix55(Round53(qr[1], qr[2] # 0)))

\* the double nearest to p/q, for small integers with 1/8 <= p/q <= 1:
\* what the literal 0.8 parses to (8/10) and what 1 / 5 evaluates to
FRatio(p, q) == Rounded(BDivSmall(Numerator(p), q))

Zero == Float(0, <<0, 0, 0, 0>>)

\* 1.0 is 2^55 units
One == Float(0, <<0, 0, 0, 2^13>>)

FIsZero(a) == BIsZero(a.m)
FPositive(a) == a.s = 0 /\ ~BIsZero(a.m)
FNegative(a) == a.s = 1 /\ ~BIsZero(a.m)

\* a < b
FLess(a, b) ==
    IF FNegative(a) THEN ~FNegative(b) \/ BLess(b.m, a.m)
    ELSE ~FNegative(b) /\ BLess(a.m, b.m)

\* a - b in float64, for a >= 0 and b >= 0
FSub(a, b) ==
    IF BLess(a.m, b.m) THEN Float(1, Round53(BSub(b.m, a.m), FALSE))
    ELSE Float(0, Round53(BSub(a.m, b.m), FALSE))

\* a * b in float64, for a >= 0 and b >= 0; the result is in units of 2^-110
FMul(a, b) == Float(0, Round53(BMul(a.m, b.m), FALSE))

\* a value in units of 2^-55 expressed in units of 2^-110
Widen(a) == Float(a.s, BMul(a.m, One.m))

\* variant: the rate of a horizon twice as long
DECAY_RATE_Halved == FRatio(1, 2 * PHEROMONE_DECAY_STEPS)

\* DECAY_RATE = 1 / PHEROMONE_DECAY_STEPS
DECAY_RATE == FRatio(1, PHEROMONE_DECAY_STEPS)

\* the float literals of Ant.move (lines 37, 40, 42)
DEFAULT_PROB == Widen(FRatio(5, 10))
OWN_FACTOR == FRatio(8, 10)
OTHER_FACTOR == FRatio(2, 10)

(***************************************************************************)
(* The float64 operations of the program on one array element.             *)
(***************************************************************************)
\* line 52: the integer 1 stored into the float64 array
DepositStrength == One

\* variant: a cell at full strength is spared by the pass
DecayStrengthSkipFull(s) ==
    IF FPositive(s) /\ s # One THEN FSub(s, DECAY_RATE) ELSE s

\* line 95: strengths[strengths > 0] -= DECAY_RATE
DecayStrength(s) == IF FPositive(s) THEN FSub(s, DECAY_RATE) ELSE s

\* variant: the clamp is left out
ClipNone(s) == s

\* line 96: np.clip(strength, 0, 1)
Clip(s) == IF FLess(s, Zero) THEN Zero ELSE IF FLess(One, s) THEN One ELSE s

\* lines 95-96 on one element
DecayCell(s) == Clip(DecayStrength(s))

\* The strengths a deposit decays to, pass after pass, and what one more pass
\* makes of each: DecayCell is evaluated once per value here and looked up
\* afterwards.
Extend(levels) == Append(levels, DecayCell(levels[Len(levels)]))

DecayLevels == Extend(Extend(Extend(Extend(Extend(Extend(<<DepositStrength>>))))))

Graph(levels) == [s \in {levels[k] : k \in 1..(Len(levels) - 1)} \cup {Zero} |->
                     IF s = Zero THEN DecayCell(Zero)
                     ELSE levels[1 + CHOOSE k \in 1..(Len(levels) - 1) : levels[k] = s]]

DecayTable == Graph(DecayLevels)

Lookup(table, s, computed) == IF s \in DOMAIN table THEN table[s] ELSE computed

Decayed(s) == Lookup(DecayTable, s, DecayCell(s))

(***************************************************************************)
(* State.                                                                  *)
(***************************************************************************)
VARIABLES
    GRID_SIZE,            \* the module-level GRID_SIZE, fixed at start-up
    grid,                 \* self.grid[y, x]: cell colour
    pheromones,           \* self.pheromones[y, x]: pheromone owner
    pheromone_strengths,  \* self.pheromone_strengths[y, x]: float64
    ants,                 \* self.ants: sequence of [x, y, direction, pheromone]
    steps,                \* self.steps
    pc,                   \* position in the body of the loop of run()
    idx,                  \* index in self.ants of the ant the for loop is at
    frame,                \* per ant: the locals of its latest call of move()
    calls,                \* how often move() (per ant) and decay ran
    visits,               \* per cell: number of move() calls executed from it
    age,                  \* per cell: decay passes since the latest deposit
    depositor,            \* per cell: index of the ant that moved from it last
    trail                 \* per ant: the cells of its latest moves, newest first

vars == <<GRID_SIZE, grid, pheromones, pheromone_strengths, ants, steps, pc,
          idx, frame, calls, visits, age, depositor, trail>>

Square(n) == (0..(n - 1)) \X (0..(n - 1))

Cells == Square(GRID_SIZE)

\* numpy indexes [y, x]
At(a, x, y) == a[<<y, x>>]

Ant(x, y, direction, pheromone) ==
    [x |-> x, y |-> y, direction |-> direction, pheromone |-> pheromone]

\* the locals of a call of move() that matter afterwards
Frame(called, self, current_color, current_pheromone, pheromone_strength, move_straight_prob, r, new_direction) ==
    [called |-> called, x |-> self.x, y |-> self.y, direction |-> self.direction,
     current_color |-> current_color, current_pheromone |-> current_pheromone,
     pheromone_strength |-> pheromone_strength,
     move_straight_prob |-> move_straight_prob, r |-> r,
     new_direction |-> new_direction]

NoFrame == Frame(FALSE, Ant(0, 0, 0, 0), 0, 0, Zero, Zero, Zero, 0)

\* the state after LangtonsAntSimulation.__init__ for a grid of side n and
\* the given ants
Constructed(n, antList) ==
    /\ GRID_SIZE = n
    /\ grid = [c \in Square(n) |-> 0]
    /\ pheromones = [c \in Square(n) |-> 0]
    /\ pheromone_strengths = [c \in Square(n) |-> Zero]
    /\ ants = antList
    /\ steps = 0
    /\ pc = "move"
    /\ idx = 1
    /\ frame = [i \in 1..Len(antList) |-> NoFrame]
    /\ calls = [move |-> [i \in 1..Len(antList) |-> 0], decay |-> 0]
    /\ visits = [c \in Square(n) |-> 0]
    /\ age = [c \in Square(n) |-> 0]
    /\ depositor = [c \in Square(n) |-> 0]
    /\ trail = [i \in 1..Len(antList) |-> <<>>]

\* The two ants of the source start at GRID_SIZE // 2 and GRID_SIZE // 2 + 10
\* with a direction drawn by random.randint(0, 3).  On the bounded grid the
\* start coordinates are reduced modulo the side, as move() reduces every
\* coordinate, so that both ants start inside the grid.
Init ==
    \E d1 \in 0..3, d2 \in 0..3 :
        Constructed(GridSide,
            <<Ant(GridSide \div 2, GridSide \div 2, d1, 1),
              Ant((GridSide \div 2 + 10) % GridSide,
                  (GridSide \div 2 + 10) % GridSide, d2, 2)>>)

(***************************************************************************)
(* Ant.move                                                                *)
(***************************************************************************)
\* variant: a rival's scent is treated like no scent
MoveStraightProbIgnoreRival(current_pheromone, pheromone_strength, pheromone) ==
    IF current_pheromone = pheromone THEN FMul(OWN_FACTOR, pheromone_strength)
    ELSE DEFAULT_PROB

\* variant: the test for an unowned cell is dropped, owner 0 counts as a rival
MoveStraightProbNoScentFree(current_pheromone, pheromone_strength, pheromone) ==
    IF current_pheromone = pheromone THEN FMul(OWN_FACTOR, pheromone_strength)
    ELSE FMul(OTHER_FACTOR, pheromone_strength)

\* variant: the two factors are exchanged
MoveStraightProbSwapped(current_pheromone, pheromone_strength, pheromone) ==
    IF current_pheromone = pheromone THEN FMul(OTHER_FACTOR, pheromone_strength)
    ELSE IF current_pheromone # 0 THEN FMul(OWN_FACTOR, pheromone_strength)
    ELSE DEFAULT_PROB

\* lines 36-42
MoveStraightProb(current_pheromone, pheromone_strength, pheromone) ==
    IF current_pheromone = pheromone THEN FMul(OWN_FACTOR, pheromone_strength)
    ELSE IF current_pheromone # 0 THEN FMul(OTHER_FACTOR, pheromone_strength)
    ELSE DEFAULT_PROB

\* variant: the two quarter-turns are exchanged
NewDirectionSwapped(r, move_straight_prob, direction, current_color) ==
    IF FLess(r, move_straight_prob) THEN direction
    ELSE (direction + (IF current_color = 0 THEN -1 ELSE 1)) % 4

\* variant: the turn is a half-turn
NewDirectionReversing(r, move_straight_prob, direction, current_color) ==
    IF FLess(r, move_straight_prob) THEN direction
    ELSE (direction + 2) % 4

\* lines 44-47
NewDirection(r, move_straight_prob, direction, current_color) ==
    IF FLess(r, move_straight_prob) THEN direction
    ELSE (direction + (IF current_color = 0 THEN 1 ELSE -1)) % 4

\* variant: the cell is painted instead of flipped
FlipColorPaint(color) == 1

\* line 50: grid[y, x] ^= 1
FlipColor(color) == IF color = 0 THEN 1 ELSE 0

\* variant: every deposit carries the id of the first ant
DepositOwnerFirst(pheromone) == 1

\* variant: the deposited id is off by one
DepositOwnerNext(pheromone) == pheromone + 1

\* line 51
DepositOwner(pheromone) == pheromone

\* variant: no wraparound
WrapNone(v, n) == v

\* lines 57-58
Wrap(v, n) == v % n

\* variant: the decay call sits inside the for loop
AfterMoveDecayInLoop(i, n) == [pc |-> "decay", idx |-> 1]

\* lines 109-110: where the loop over self.ants goes after ant i of n
AfterMove(i, n) ==
    IF i < n THEN [pc |-> "move", idx |-> i + 1] ELSE [pc |-> "decay", idx |-> 1]

\* variant: the ant advances along the direction it had before the turn
AdvancedAlongOld(self, new_direction) ==
    [self EXCEPT !.direction = new_direction,
                 !.x = Wrap(self.x + DIRECTIONS[self.direction + 1][1], GRID_SIZE),
                 !.y = Wrap(self.y + DIRECTIONS[self.direction + 1][2], GRID_SIZE)]

\* lines 55-58: the ant turned to new_direction and advanced one cell
Advanced(self, new_direction) ==
    [self EXCEPT !.direction = new_direction,
                 !.x = Wrap(self.x + DIRECTIONS[new_direction + 1][1], GRID_SIZE),
                 !.y = Wrap(self.y + DIRECTIONS[new_direction + 1][2], GRID_SIZE)]

\* lines 109-110: the for loop moves on
LoopTo(after) == pc' = after.pc /\ idx' = after.idx

\* the cells an ant moved from, the latest one in front, the latest three kept
Remember(cells, cell) == SubSeq(<<cell>> \o cells, 1, IF Len(cells) < 3 THEN Len(cells) + 1 ELSE 3)

\* lines 49-58, with the locals of the call as computed by lines 32-47
MoveEffects(self, cell, current_color, current_pheromone, pheromone_strength, move_straight_prob, r, new_direction) ==
    /\ grid' = [grid EXCEPT ![cell] = FlipColor(current_color)]
    /\ pheromones' = [pheromones EXCEPT ![cell] = DepositOwner(self.pheromone)]
    /\ pheromone_strengths' = [pheromone_strengths EXCEPT ![cell] = DepositStrength]
    /\ ants' = [ants EXCEPT ![idx] = Advanced(self, new_direction)]
    /\ frame' = [frame EXCEPT ![idx] =
                    Frame(TRUE, self, current_color, current_pheromone,
                          pheromone_strength, move_straight_prob, r, new_direction)]
    /\ calls' = [calls EXCEPT !.move[idx] = @ + 1]
    /\ visits' = [visits EXCEPT ![cell] = @ + 1]
    /\ age' = [age EXCEPT ![cell] = 0]
    /\ depositor' = [depositor EXCEPT ![cell] = idx]
    /\ trail' = [trail EXCEPT ![idx] = Remember(@, cell)]
    /\ LoopTo(AfterMove(idx, Len(ants)))

\* lines 44-47
MoveTurning(self, cell, current_color, current_pheromone, pheromone_strength, move_straight_prob, r) ==
    MoveEffects(self, cell, current_color, current_pheromone, pheromone_strength,
                move_straight_prob, r,
                NewDirection(r, move_straight_prob, self.direction, current_color))

\* lines 32-42
MoveReading(self, cell, current_color, current_pheromone, pheromone_strength, r) ==
    MoveTurning(self, cell, current_color, current_pheromone, pheromone_strength,
                MoveStraightProb(current_pheromone, pheromone_strength,
                                 self.pheromone), r)

\* self.move(grid, pheromones, pheromone_strengths) with random draw r
Move(self, r) ==
    MoveReading(self, <<self.y, self.x>>, At(grid, self.x, self.y),
                At(pheromones, self.x, self.y),
                At(pheromone_strengths, self.x, self.y), r)

\* one call ant.move(...) of the for loop of run(), with random draw r; the
\* loop is entered at most maxSteps times
AntMove(r, maxSteps) ==
    /\ pc = "move"
    /\ idx = 1 => steps < maxSteps
    /\ Move(ants[idx], r)
    /\ UNCHANGED <<GRID_SIZE, steps>>

(***************************************************************************)
(* LangtonsAntSimulation.decay_pheromones                                  *)
(***************************************************************************)
\* variant: the owner is never cleared
ClearOwnerNever(owner, s) == owner

\* variant: the pass clears the owner of every cell
ClearOwnerAlways(owner, s) == 0

\* line 99: pheromones[strengths == 0] = 0
ClearOwner(owner, s) == IF FIsZero(s) THEN 0 ELSE owner

DecayPheromones ==
    /\ pc = "decay"
    /\ pheromone_strengths' = [c \in Cells |-> Decayed(pheromone_strengths[c])]
    /\ pheromones' = [c \in Cells |-> ClearOwner(pheromones[c], pheromone_strengths'[c])]
    /\ calls' = [calls EXCEPT !.decay = @ + 1]
    /\ age' = [c \in Cells |-> age[c] + 1]
    /\ pc' = "count"
    /\ UNCHANGED <<GRID_SIZE, grid, ants, steps, idx, frame, visits, depositor, trail>>

(***************************************************************************)
(* LangtonsAntSimulation.run: the rest of the loop body                    *)
(***************************************************************************)
\* line 115: self.steps += 1
StepIncrement(s) == s + 1

\* line 115, and lines 117-136 (viewport and drawing), which read the
\* simulation state and write none of it
CountStep ==
    /\ pc = "count"
    /\ steps' = StepIncrement(steps)
    /\ pc' = "move"
    /\ UNCHANGED <<GRID_SIZE, grid, pheromones, pheromone_strengths, ants, idx,
                   frame, calls, visits, age, depositor, trail>>

\* the draws of random.random() that the model offers: 0.0 is below every
\* positive probability, 0.9 is above every probability the program computes
Draws == {Widen(Zero), Widen(FRatio(9, 10))}

Next ==
    \/ \E r \in Draws : AntMove(r, MaxSteps)
    \/ DecayPheromones
    \/ CountStep

Spec == Init /\ [][Next]_vars

(***************************************************************************)
(* The scenario of the specification: a grid of side 10, one ant with      *)
(* pheromone id 1 at (5, 5) facing up, every draw forced to 0.9.           *)
(***************************************************************************)
InitScenario == Constructed(10, <<Ant(5, 5, 0, 1)>>)

\* the forced draw r = 0.9
ForcedDraw == Widen(FRatio(9, 10))

NextScenario ==
    \/ AntMove(ForcedDraw, ScenarioSteps)
    \/ DecayPheromones
    \/ CountStep

SpecScenario == InitScenario /\ [][NextScenario]_vars

(***************************************************************************)
(* Construction under other values of the constants of lines 6-13 and of   *)
(* the ids of lines 73-74, which are the configuration of the program.     *)
(* The run starts before LangtonsAntSimulation() is called: the arrays and *)
(* the ants do not exist yet.                                              *)
(***************************************************************************)
ConfigSteps == 1

\* values of GRID_SIZE: negative, zero, too small for the second ant, and
\* the smallest side that holds x = GRID_SIZE // 2 + 10
ConfigSides == {-1, 0, 1, 21}

\* values of the pheromone ids handed to the two ants
ConfigIds == {1, 2}

\* a field that has no cell or no ant yet
Absent == <<>>

InitConfig ==
    /\ GRID_SIZE \in ConfigSides
    /\ pc = "construct"
    /\ grid = Absent /\ pheromones = Absent /\ pheromone_strengths = Absent
    /\ ants = Absent /\ frame = Absent /\ trail = Absent
    /\ visits = Absent /\ age = Absent /\ depositor = Absent
    /\ calls = [move |-> Absent, decay |-> 0]
    /\ steps = 0
    /\ idx = 1

\* lines 68-70: np.zeros((GRID_SIZE, GRID_SIZE)) raises ValueError for a
\* negative dimension and builds an empty array for dimension 0
ZerosRaises(n) == n < 0

\* lines 72-75: the two ants, with ids a and b
StartAnts(n, d1, d2, a, b) ==
    <<Ant(n \div 2, n \div 2, d1, a), Ant(n \div 2 + 10, n \div 2 + 10, d2, b)>>

\* lines 62-80 completed without an exception
Built(n, antList) ==
    /\ grid' = [c \in Square(n) |-> 0]
    /\ pheromones' = [c \in Square(n) |-> 0]
    /\ pheromone_strengths' = [c \in Square(n) |-> Zero]
    /\ ants' = antList
    /\ steps' = 0
    /\ pc' = "move"
    /\ idx' = 1
    /\ frame' = [i \in 1..Len(antList) |-> NoFrame]
    /\ calls' = [move |-> [i \in 1..Len(antList) |-> 0], decay |-> 0]
    /\ visits' = [c \in Square(n) |-> 0]
    /\ age' = [c \in Square(n) |-> 0]
    /\ depositor' = [c \in Square(n) |-> 0]
    /\ trail' = [i \in 1..Len(antList) |-> <<>>]

\* LangtonsAntSimulation(): the constructor tests none of its constants; the
\* only exception it can raise is the one of np.zeros
Construct(d1, d2, a, b) ==
    /\ pc = "construct"
    /\ IF ZerosRaises(GRID_SIZE)
          THEN /\ pc' = "ValueError"
               /\ UNCHANGED <<grid, pheromones, pheromone_strengths, ants, steps,
                              idx, frame, calls, visits, age, depositor, trail>>
          ELSE Built(GRID_SIZE, StartAnts(GRID_SIZE, d1, d2, a, b))
    /\ UNCHANGED GRID_SIZE

\* line 32: grid[self.y, self.x] of an ant whose coordinates are not below
\* the side of the array
OutOfBounds(self) == self.x >= GRID_SIZE \/ self.y >= GRID_SIZE

\* line 32 raises IndexError, which nothing catches: run() ends
MoveIndexError ==
    /\ pc = "move"
    /\ idx = 1 => steps < ConfigSteps
    /\ OutOfBounds(ants[idx])
    /\ pc' = "IndexError"
    /\ UNCHANGED <<GRID_SIZE, grid, pheromones, pheromone_strengths, ants, steps,
                   idx, frame, calls, visits, age, depositor, trail>>

MoveInBounds(r) ==
    /\ pc = "move"
    /\ ~OutOfBounds(ants[idx])
    /\ AntMove(r, ConfigSteps)

NextConfig ==
    \/ \E d1, d2 \in 0..3 : \E a, b \in ConfigIds : Construct(d1, d2, a, b)
    \/ \E r \in Draws : MoveInBounds(r)
    \/ MoveIndexError
    \/ DecayPheromones
    \/ CountStep

SpecConfig == InitConfig /\ [][NextConfig]_vars

(***************************************************************************)
(* Properties.                                                             *)
(***************************************************************************)
AntIds == 1..Len(ants)

Strength(c) == pheromone_strengths[c]

\* the cell ant i made its latest move from
FrameCell(i) == <<frame[i].y, frame[i].x>>

\* between two iterations of the main loop
AtBoundary == pc = "move" /\ idx = 1

\* 0.8 and 0.2 as float64
Dbl08 == FRatio(8, 10)
Dbl02 == FRatio(2, 10)

\* C1: owner invariant - in every reachable state a cell whose pheromone
\* strength is 0 has pheromone owner 0 (a nonzero owner implies a strictly
\* positive strength).
C1_OwnerInvariant ==
    \A c \in Cells :
        /\ FIsZero(Strength(c)) => pheromones[c] = 0
        /\ pheromones[c] # 0 => FPositive(Strength(c))

\* a cell that an ant deposited on has decayed to 0 and lost its owner
C1_Witness ==
    \E c \in Cells : visits[c] > 0 /\ FIsZero(Strength(c)) /\ pheromones[c] = 0

\* C2 as stated: at the end of the driver step in which a pheromone was laid
\* down (after the decay pass) the deposited cell still has strength 1.0.
C2_Original ==
    pc = "count" => \A i \in AntIds : Strength(FrameCell(i)) = One

\* C2 as amended: all ants move before the decay pass of the step runs, the
\* fresh deposits are at 1.0 when it starts, and the pass decays them once:
\* at the end of the step the deposited cell has strength 1 - 1/5 = 0.8.
C2_FreshDepositDecayedOnce ==
    /\ pc = "decay" =>
          \A i \in AntIds : /\ calls.move[i] = calls.decay + 1
                            /\ Strength(FrameCell(i)) = One
    /\ pc = "count" =>
          \A i \in AntIds : /\ calls.move[i] = calls.decay
                            /\ Strength(FrameCell(i)) = Dbl08
                            /\ Strength(FrameCell(i)) = FSub(One, DECAY_RATE)

\* the decay pass of a step has run over the deposit of that step
C2_Witness ==
    /\ pc = "count"
    /\ frame[1].called
    /\ Strength(FrameCell(1)) = Dbl08
    /\ pheromones[FrameCell(1)] # 0

\* after exactly n complete driver steps of the scenario
ScenarioAfter(n) == AtBoundary /\ steps = n /\ calls.move[1] = n

\* C3 as stated: after the first driver step of the scenario the ant has
\* direction 1 and position (6, 5), and cell (5, 5) has colour 1, owner 1 and
\* strength 1.0.
C3_Original ==
    ScenarioAfter(1) =>
        /\ ants[1].direction = 1 /\ ants[1].x = 6 /\ ants[1].y = 5
        /\ At(grid, 5, 5) = 1
        /\ At(pheromones, 5, 5) = 1
        /\ At(pheromone_strengths, 5, 5) = One

\* C3 as amended: after the first driver step of the scenario the ant has
\* direction 1 and position (6, 5), and cell (5, 5) has colour 1, owner 1 and
\* strength 0.8, the decay pass of that step having run over it.
C3_FirstStep ==
    ScenarioAfter(1) =>
        /\ ants[1].direction = 1 /\ ants[1].x = 6 /\ ants[1].y = 5
        /\ At(grid, 5, 5) = 1
        /\ At(pheromones, 5, 5) = 1
        /\ At(pheromone_strengths, 5, 5) = Dbl08

\* the scenario has completed its first driver step, from (5, 5) facing up
C3_Witness ==
    /\ ScenarioAfter(1)
    /\ GRID_SIZE = 10 /\ Len(ants) = 1
    /\ frame[1].x = 5 /\ frame[1].y = 5 /\ frame[1].direction = 0
    /\ frame[1].r = ForcedDraw

\* C4 as stated: after the second driver step of the scenario the ant has
\* direction 2 and the strength of cell (5, 5) is 0.8.
C4_Original ==
    ScenarioAfter(2) =>
        /\ ants[1].direction = 2
        /\ At(pheromone_strengths, 5, 5) = Dbl08

\* C4 as amended: after the second driver step of the scenario the ant has
\* direction 2, and cell (5, 5), decayed once in each of the two steps, has
\* strength 0.8 - 0.2 in float64, which is 0.6000000000000001
\* (5404319552844596 * 2^-53), one unit in the last place above 0.6.
C4_SecondStep ==
    ScenarioAfter(2) =>
        /\ ants[1].direction = 2
        /\ At(pheromone_strengths, 5, 5) = FSub(Dbl08, Dbl02)
        /\ At(pheromone_strengths, 5, 5).m = <<3280, 13107, 3276, 4915>>
        /\ FLess(FRatio(6, 10), At(pheromone_strengths, 5, 5))

\* the scenario has completed its second step, made from the unscented
\* colour-0 cell (6, 5) facing right
C4_Witness ==
    /\ ScenarioAfter(2)
    /\ frame[1].x = 6 /\ frame[1].y = 5 /\ frame[1].direction = 1
    /\ frame[1].current_color = 0 /\ frame[1].current_pheromone = 0
    /\ age[<<5, 5>>] = 2

\* C5: decay horizon - a cell deposited at full strength that receives no
\* re-deposit has strength exactly 0 after exactly PHEROMONE_DECAY_STEPS (5)
\* decay passes, and a strictly positive strength after each of the first 4.
C5_DecayHorizon ==
    \A c \in Cells :
        visits[c] > 0 =>
            /\ age[c] = PHEROMONE_DECAY_STEPS => FIsZero(Strength(c))
            /\ age[c] \in 1..(PHEROMONE_DECAY_STEPS - 1) => FPositive(Strength(c))

\* C6: toroidal closure - the coordinates of every ant stay inside the grid;
\* a move to the left from x = 0 ends at x = GRID_SIZE - 1, a move to the
\* right from x = GRID_SIZE - 1 ends at x = 0, and likewise for y.
C6_ToroidalClosure ==
    \A i \in AntIds :
        /\ ants[i].x \in 0..(GRID_SIZE - 1)
        /\ ants[i].y \in 0..(GRID_SIZE - 1)
        /\ frame[i].called =>
              /\ (frame[i].x = 0 /\ frame[i].new_direction = 3)
                     => ants[i].x = GRID_SIZE - 1
              /\ (frame[i].x = GRID_SIZE - 1 /\ frame[i].new_direction = 1)
                     => ants[i].x = 0
              /\ (frame[i].y = 0 /\ frame[i].new_direction = 0)
                     => ants[i].y = GRID_SIZE - 1
              /\ (frame[i].y = GRID_SIZE - 1 /\ frame[i].new_direction = 2)
                     => ants[i].y = 0

\* an ant has just crossed the left edge
C6_Witness ==
    \E i \in AntIds :
        /\ frame[i].called
        /\ frame[i].x = 0 /\ frame[i].new_direction = 3
        /\ ants[i].x = GRID_SIZE - 1

\* C7: strength bound - the pheromone strength of every cell lies in [0, 1]
\* in every reachable state.
C7_StrengthBound ==
    \A c \in Cells : ~FLess(Strength(c), Zero) /\ ~FLess(One, Strength(c))

\* a pass has just taken one deposit below 0, where it was clamped, while the
\* deposits of the current step are in the grid
C7_Witness ==
    /\ pc = "count"
    /\ \E c \in Cells : visits[c] > 0 /\ age[c] = PHEROMONE_DECAY_STEPS + 1
                        /\ Strength(c) = Zero
    /\ \E c \in Cells : age[c] = 1 /\ FPositive(Strength(c))

\* C8: driver step structure - in each driver step every ant moves exactly
\* once, in list order, then decay runs exactly once after the last ant has
\* moved, then the step counter goes up by exactly 1: the counter equals the
\* number of completed driver steps.
C8_StepStructure ==
    /\ pc \in {"move", "decay", "count"}
    /\ idx \in AntIds
    /\ pc # "move" => idx = 1
    /\ \A i \in AntIds :
          calls.move[i] = steps + (IF pc # "move" \/ i < idx THEN 1 ELSE 0)
    /\ calls.decay = steps + (IF pc = "count" THEN 1 ELSE 0)

\* in the middle of a later step: the first ant has moved, the second not yet
C8_Witness ==
    /\ steps >= 2 /\ pc = "move" /\ idx = 2
    /\ calls.move[1] = steps + 1 /\ calls.move[2] = steps /\ calls.decay = steps

\* ants i < j made their latest moves from the same cell, and no other ant did
SharedCell(i, j) ==
    /\ i < j
    /\ frame[i].called /\ frame[j].called
    /\ FrameCell(i) = FrameCell(j)
    /\ \A k \in AntIds \ {i, j} : FrameCell(k) # FrameCell(i)

\* C9: within-step observability - when two ants occupy the same cell at the
\* start of a driver step, the later ant reads what the earlier one wrote in
\* that step (colour flipped, owner the earlier ant's id, strength 1.0), its
\* move-straight probability is 0.2 x 1.0, its turn uses the flipped colour,
\* and after both moves the cell has its colour of the start of the step and
\* the later ant's id as owner.
C9_WithinStepObservability ==
    pc = "decay" =>
        \A i, j \in AntIds :
            SharedCell(i, j) =>
                /\ frame[j].current_color = 1 - frame[i].current_color
                /\ frame[j].current_pheromone = ants[i].pheromone
                /\ frame[j].pheromone_strength = One
                /\ frame[j].move_straight_prob = FMul(Dbl02, One)
                /\ frame[j].move_straight_prob = Widen(Dbl02)
                /\ ~FLess(frame[j].r, frame[j].move_straight_prob) =>
                      frame[j].new_direction =
                          (frame[j].direction
                             + (IF frame[i].current_color = 1 THEN 1 ELSE -1)) % 4
                /\ grid[FrameCell(i)] = frame[i].current_color
                /\ pheromones[FrameCell(i)] = ants[j].pheromone

\* both ants have just moved from the cell they shared, the later one turning
C9_Witness ==
    /\ pc = "decay"
    /\ SharedCell(1, 2)
    /\ ~FLess(frame[2].r, frame[2].move_straight_prob)

\* C10: colour parity - the colour of a cell is the parity of the number of
\* ant moves executed from it; a cell moved from exactly twice has its
\* original colour 0 again.
C10_ColorParity ==
    \A c \in Cells : grid[c] = visits[c] % 2

\* a cell has been moved from exactly twice
C10_Witness ==
    \E c \in Cells : visits[c] = 2 /\ grid[c] = 0

\* the three fields of cell c are the same before and after the step
CellUnchanged(c) ==
    /\ grid'[c] = grid[c]
    /\ pheromones'[c] = pheromones[c]
    /\ pheromone_strengths'[c] = pheromone_strengths[c]

\* the move of ant i from cell c: what it writes and what it leaves alone
MoveFrame(i, c) ==
    /\ grid'[c] = 1 - grid[c]
    /\ pheromones'[c] = ants[i].pheromone
    /\ pheromone_strengths'[c] = One
    /\ \A other \in Cells \ {c} : CellUnchanged(other)
    /\ Len(ants') = Len(ants)
    /\ \A j \in AntIds \ {i} : ants'[j] = ants[j]
    /\ ants'[i].pheromone = ants[i].pheromone
    /\ steps' = steps
    /\ GRID_SIZE' = GRID_SIZE

\* C12: move frame condition - one ant move changes exactly one grid cell,
\* the cell at the ant's position before the move (colour flipped, owner set
\* to the ant's id, strength set to 1.0 whatever scent was there), and only
\* that ant's position and direction; every other cell in all three fields,
\* every other ant, the ant's pheromone id and the step counter are unchanged.
C12_MoveFrame ==
    [][pc = "move" => MoveFrame(idx, <<ants[idx].y, ants[idx].x>>)]_vars

\* an ant has just moved from a cell that carried scent below full strength,
\* and the cell now carries the ant's id at strength 1.0
C12_Witness ==
    \E i \in AntIds :
        /\ frame[i].called
        /\ frame[i].current_pheromone # 0
        /\ FLess(frame[i].pheromone_strength, One)
        /\ Strength(FrameCell(i)) = One
        /\ pheromones[FrameCell(i)] = ants[i].pheromone
        /\ grid[FrameCell(i)] = 1 - frame[i].current_color

\* the cell reached from (x, y) by one step along direction d on a torus of
\* side n, with up = (0, -1), right = (1, 0), down = (0, 1), left = (-1, 0)
Ahead(x, y, d, n) ==
    CASE d = 0 -> <<x, (y + n - 1) % n>>
      [] d = 1 -> <<(x + 1) % n, y>>
      [] d = 2 -> <<x, (y + 1) % n>>
      [] d = 3 -> <<(x + n - 1) % n, y>>

\* the latest move of ant i followed the turn rule
TurnRule(i) ==
    /\ FLess(frame[i].r, frame[i].move_straight_prob) =>
           frame[i].new_direction = frame[i].direction
    /\ ~FLess(frame[i].r, frame[i].move_straight_prob) /\ frame[i].current_color = 0 =>
           frame[i].new_direction = (frame[i].direction + 1) % 4
    /\ ~FLess(frame[i].r, frame[i].move_straight_prob) /\ frame[i].current_color = 1 =>
           frame[i].new_direction = (frame[i].direction + 3) % 4
    /\ ants[i].direction = frame[i].new_direction
    /\ <<ants[i].x, ants[i].y>> =
           Ahead(frame[i].x, frame[i].y, frame[i].new_direction, GRID_SIZE)

\* C13: turn rule - with draw r and move-straight probability p, the new
\* direction is the current one if r < p, otherwise (direction + 1) mod 4 when
\* the colour read before the flip is 0 and (direction - 1) mod 4 when it is
\* 1; the ant then advances one cell along the new direction, with
\* up = (0, -1), right = (1, 0), down = (0, 1), left = (-1, 0).
C13_TurnRule ==
    \A i \in AntIds : frame[i].called => TurnRule(i)

\* an ant read colour 1, drew r >= p and turned counter-clockwise to a
\* direction other than the one it had, then advanced along the new one
C13_Witness ==
    \E i \in AntIds :
        /\ frame[i].called
        /\ frame[i].current_color = 1
        /\ ~FLess(frame[i].r, frame[i].move_straight_prob)
        /\ frame[i].new_direction = (frame[i].direction + 3) % 4
        /\ <<ants[i].x, ants[i].y>> # Ahead(frame[i].x, frame[i].y, frame[i].direction, GRID_SIZE)

\* 0.5 and 0.8 in units of 2^-110
Half == Widen(FRatio(1, 2))
Wide08 == Widen(Dbl08)

ProbabilityRule(i) ==
    /\ frame[i].current_pheromone = ants[i].pheromone =>
           frame[i].move_straight_prob = FMul(Dbl08, frame[i].pheromone_strength)
    /\ frame[i].current_pheromone \notin {0, ants[i].pheromone} =>
           frame[i].move_straight_prob = FMul(Dbl02, frame[i].pheromone_strength)
    /\ frame[i].current_pheromone = 0 =>
           frame[i].move_straight_prob = Half
    /\ ~FNegative(frame[i].move_straight_prob)
    /\ ~FLess(Wide08, frame[i].move_straight_prob)

\* two products as float64 computes them: 0.8 * 0.20000000000000007 is
\* 0.16000000000000006 and 0.2 * 1.0 is 0.2
ProbabilityValues(i) ==
    /\ /\ frame[i].current_pheromone = ants[i].pheromone
       /\ frame[i].pheromone_strength.m = <<6556, 9830, 6553, 1638>>
       => frame[i].move_straight_prob.m = <<0, 0, 0, 8192, 2622, 3932, 5898, 655>>
    /\ /\ frame[i].current_pheromone \notin {0, ants[i].pheromone}
       /\ frame[i].pheromone_strength = One
       => frame[i].move_straight_prob.m = <<0, 0, 0, 0, 3277, 13107, 3276, 819>>

\* C16: the move-straight probability used is 0.8 * strength when the
\* cell's owner equals the ant's id, 0.2 * strength when the owner is a
\* different nonzero id, and 0.5 when the owner is 0; the value used is
\* always in [0, 0.8].
C16_ProbabilityRule ==
    \A i \in AntIds : frame[i].called => ProbabilityRule(i) /\ ProbabilityValues(i)

\* an ant has just moved from a cell that carried its own scent
C16_Witness ==
    \E i \in AntIds :
        /\ frame[i].called
        /\ frame[i].current_pheromone = ants[i].pheromone
        /\ FPositive(frame[i].pheromone_strength)
        /\ FPositive(frame[i].move_straight_prob)

\* what a decay pass leaves alone
DecayFrame ==
    /\ grid' = grid
    /\ ants' = ants
    /\ steps' = steps
    /\ \A c \in Cells :
          /\ FIsZero(Strength(c)) =>
                pheromone_strengths'[c] = Strength(c) /\ pheromones'[c] = pheromones[c]
          /\ FPositive(pheromone_strengths'[c]) => pheromones'[c] = pheromones[c]
          /\ FIsZero(pheromone_strengths'[c]) => pheromones'[c] = 0
          /\ pheromones'[c] # pheromones[c] => FIsZero(pheromone_strengths'[c])

\* C17: decay frame condition - a decay pass changes no cell colour, no
\* ant's position, direction or id, and not the step counter; it leaves cells
\* of strength 0 entirely unchanged; for every cell still positive after the
\* pass it leaves the owner unchanged; the owner is reset to 0 exactly for
\* the cells whose strength is 0 after the pass.
C17_DecayFrame ==
    [][pc = "decay" => DecayFrame]_vars

\* a decay pass has just taken a cell to strength 0 and reset its owner,
\* while another cell stayed positive and kept its owner
C17_Witness ==
    /\ pc = "count"
    /\ \E c \in Cells : age[c] = PHEROMONE_DECAY_STEPS + 1 /\ depositor[c] # 0
                          /\ pheromones[c] = 0
    /\ \E c \in Cells : FPositive(Strength(c)) /\ pheromones[c] # 0

\* the cell ant i stands on
Position(i) == <<ants[i].y, ants[i].x>>

\* the cells ant i made its latest moves from, at most three
Trail(i) == {trail[i][k] : k \in 1..Len(trail[i])}

Scented == {c \in Cells : FPositive(Strength(c))}

\* C19: bounded scent footprint - at every driver-step boundary (after the
\* decay pass) the number of cells with positive strength is at most
\* (PHEROMONE_DECAY_STEPS - 1) * (number of ants), and every such cell is a
\* cell some ant moved from within the last PHEROMONE_DECAY_STEPS - 1 driver
\* steps.
C19_ScentFootprint ==
    AtBoundary =>
        /\ Cardinality(Scented) <= (PHEROMONE_DECAY_STEPS - 1) * Len(ants)
        /\ \A c \in Scented :
              depositor[c] # 0 /\ age[c] <= PHEROMONE_DECAY_STEPS - 1

\* C20: stable ant population and valid owners - the number of ants, their
\* order and each ant's pheromone id are those of construction (ids 1 and 2,
\* in that order) in every state, and every nonzero owner in the grid is the
\* pheromone id of one of those ants, the one that moved from that cell last.
C20_StablePopulation ==
    /\ Len(ants) = 2
    /\ ants[1].pheromone = 1 /\ ants[2].pheromone = 2
    /\ \A c \in Cells :
          pheromones[c] # 0 =>
              /\ depositor[c] \in AntIds
              /\ pheromones[c] = ants[depositor[c]].pheromone

\* an ant has moved from a cell that carried the other ant's id, and the
\* cell now carries its own
C20_Witness ==
    \E i \in AntIds :
        /\ frame[i].called
        /\ frame[i].current_pheromone \notin {0, ants[i].pheromone}
        /\ depositor[FrameCell(i)] = i
        /\ pheromones[FrameCell(i)] = ants[i].pheromone

\* construction has ended, with or without an exception
ConstructionOver == pc # "construct"

\* the configuration is one of those the specification rejects
Misconfigured ==
    \/ GRID_SIZE <= 0
    \/ PHEROMONE_DECAY_STEPS <= 0
    \/ \E i, j \in AntIds : i # j /\ ants[i].pheromone = ants[j].pheromone

\* construction ended with an exception, of whatever class
ConstructionFailed == pc \in {"ConfigurationError", "ValueError"}

\* C14: configuration errors - construction fails with a configuration
\* error, before any step, whenever the grid side is <= 0, two ants have the
\* same pheromone id, or the number of decay steps is <= 0.
C14_ConfigurationErrors ==
    ConstructionOver /\ Misconfigured => ConstructionFailed

====
